---- MODULE Spec2Model ----
(***************************************************************************)
(* The Board of secret_hitler/board.py as a state machine: the roster, the *)
(* three tile pools, the progress counters, the presidency and the set of  *)
(* updated property names.  Every method of Board that changes state is an *)
(* action; the methods that only read (get_winner, get_president,          *)
(* get_current_presidential_power) are operators over the state.           *)
(*                                                                         *)
(* Four history variables are not fields of Board: last_call records the   *)
(* method called last, its argument and the exception it raised (None when *)
(* it returned), response the mapping returned by the last extract_updates *)
(* call that returned, drawn_replaced records whether some                 *)
(* draw_three_tiles call has overwritten a non-empty drawn_tiles, and      *)
(* roster_calls counts the calls of the roster methods that did not add a  *)
(* player.                                                                 *)
(***************************************************************************)
EXTENDS Integers, Sequences, FiniteSets, TLC

VARIABLES players, eliminated_players, president_id, prev_president,
          unused_tiles, discarded_tiles, drawn_tiles, latest_policy,
          liberal_progress, fascist_progress, fascist_powers, updates,
          last_call, drawn_replaced, roster_calls, response

vars == <<players, eliminated_players, president_id, prev_president,
          unused_tiles, discarded_tiles, drawn_tiles, latest_policy,
          liberal_progress, fascist_progress, fascist_powers, updates,
          last_call, drawn_replaced, roster_calls, response>>

rosterVars == <<players, eliminated_players, president_id, prev_president, fascist_powers,
                roster_calls>>

deckVars == <<unused_tiles, discarded_tiles, drawn_tiles, latest_policy,
              liberal_progress, fascist_progress, drawn_replaced>>

(***************************************************************************)
(* Bounds.                                                                 *)
(***************************************************************************)
\* add_player is called with a new name while the roster holds fewer than
\* MaxPlayers players: one more than the largest supported roster, so that
\* begin_game is also called on a roster that is too large.
MaxPlayers == 11

\* Besides the add_player calls that add a player, the roster methods are
\* called at most MaxRosterCalls times in a run (begin_game, advance_president
\* and add_player with a name already taken): enough for a second begin_game
\* on every roster.
MaxRosterCalls == 2

\* at most MaxEliminated players are moved to eliminated_players in a run
MaxEliminated == 2

(***************************************************************************)
(* Values.                                                                 *)
(***************************************************************************)
None == "None"

LIBERAL_POLICY == "LIBERAL_POLICY"
FASCIST_POLICY == "FASCIST_POLICY"
Tile == {LIBERAL_POLICY, FASCIST_POLICY}

INVESTIGATE_LOYALTY == "INVESTIGATE_LOYALTY"
CALL_SPECIAL_ELECTION == "CALL_SPECIAL_ELECTION"
POLICY_PEEK == "POLICY_PEEK"
EXECUTION == "EXECUTION"

LIBERAL == "LIBERAL"
FASCIST == "FASCIST"
HITLER == "HITLER"
Identity == {LIBERAL, FASCIST, HITLER}

\* prev_president before any president has been recorded (Python None); a
\* recorded president is referred to by the id of its Player object.
NoPlayer == -1

LIBERAL_WINNING_PROGRESS == 5
FASCIST_WINNING_PROGRESS == 6

\* [Tile.LIBERAL_POLICY] * 6 + [Tile.FASCIST_POLICY] * 11
NumLiberalTiles == 6
NumFascistTiles == 11

(***************************************************************************)
(* Python list operations.                                                 *)
(***************************************************************************)
Range(s) == {s[i] : i \in 1..Len(s)}

Count(x, s) == Len(SelectSeq(s, LAMBDA y : y = x))

\* [x] * n
Repeat(x, n) == [i \in 1..n |-> x]

\* s[:n]
Take(s, n) == SubSeq(s, 1, IF Len(s) < n THEN Len(s) ELSE n)

\* s[n-1:], a slice that starts one position early
DropOneEarly(s, n) == SubSeq(s, n, Len(s))

\* s[n:]
Drop(s, n) == SubSeq(s, n + 1, Len(s))

\* s without any occurrence of x
RemoveAll(s, x) == SelectSeq(s, LAMBDA y : y # x)

\* s without its first element, whatever x is
RemoveHead(s, x) == Tail(s)

\* list.remove(x): s without its first occurrence of x (x is in s)
ListRemove(s, x) ==
    LET i == CHOOSE k \in 1..Len(s) : s[k] = x /\ \A j \in 1..(k - 1) : s[j] # x
    IN  SubSeq(s, 1, i - 1) \o SubSeq(s, i + 1, Len(s))

\* random.shuffle(s): every reordering of s is a possible outcome
RECURSIVE shuffle(_)
shuffle(s) ==
    IF s = <<>> THEN {<<>>}
    ELSE UNION {LET i == CHOOSE k \in 1..Len(s) : s[k] = x
                    others == SubSeq(s, 1, i - 1) \o SubSeq(s, i + 1, Len(s))
                IN  {<<x>> \o t : t \in shuffle(others)} : x \in Range(s)}

(***************************************************************************)
(* Module-level tables.                                                    *)
(***************************************************************************)
\* num_players -> num_liberals, num_fascists, presidential_powers
NUM_PLAYERS_TO_BOARD_CONFIG ==
    [n \in 5..10 |->
       CASE n = 5  -> <<3, 1, <<None, None, POLICY_PEEK, EXECUTION, EXECUTION, None>>>>
         [] n = 6  -> <<4, 1, <<None, None, POLICY_PEEK, EXECUTION, EXECUTION, None>>>>
         [] n = 7  -> <<4, 2, <<None, INVESTIGATE_LOYALTY, CALL_SPECIAL_ELECTION,
                                EXECUTION, EXECUTION, None>>>>
         [] n = 8  -> <<5, 2, <<None, INVESTIGATE_LOYALTY, CALL_SPECIAL_ELECTION,
                                EXECUTION, EXECUTION, None>>>>
         [] n = 9  -> <<5, 3, <<INVESTIGATE_LOYALTY, INVESTIGATE_LOYALTY, CALL_SPECIAL_ELECTION,
                                EXECUTION, EXECUTION, None>>>>
         [] n = 10 -> <<6, 3, <<INVESTIGATE_LOYALTY, INVESTIGATE_LOYALTY, CALL_SPECIAL_ELECTION,
                                EXECUTION, EXECUTION, None>>>>]

\* Player(id, name); the role is unset until begin_game assigns one
Player(id, name) == [id |-> id, name |-> name, identity |-> None]

\* what a method call left behind: its name, its argument, the exception raised
Call(op, arg, raised) == [op |-> op, arg |-> arg, raised |-> raised]

(***************************************************************************)
(* Board.__init__                                                          *)
(***************************************************************************)
Init ==
    /\ players = <<>>
    /\ eliminated_players = <<>>
    /\ president_id = 0
    /\ prev_president = NoPlayer
    /\ unused_tiles \in shuffle(Repeat(LIBERAL_POLICY, NumLiberalTiles)
                                \o Repeat(FASCIST_POLICY, NumFascistTiles))
    /\ discarded_tiles = <<>>
    /\ drawn_tiles = <<>>
    /\ latest_policy = None
    /\ liberal_progress = 0
    /\ fascist_progress = 0
    /\ fascist_powers = None
    /\ updates = {}
    /\ last_call = Call("__init__", None, None)
    /\ drawn_replaced = FALSE
    /\ roster_calls = 0
    /\ response = <<>>

(***************************************************************************)
(* The deck: draw_three_tiles, discard_tile, get_winner.                   *)
(***************************************************************************)
\* The outcomes of random.shuffle on a list of l Liberal and f Fascist tiles,
\* for the lists the 17 tiles can make; each set is enumerated once here
\* instead of at every draw.
ShuffledTiles ==
    [l \in 0..NumLiberalTiles |->
       [f \in 0..NumFascistTiles |->
          shuffle(Repeat(LIBERAL_POLICY, l) \o Repeat(FASCIST_POLICY, f))]]

\* random.shuffle(tiles): the outcomes depend on the tiles of each kind only
shuffle_tiles(tiles) ==
    LET l == Count(LIBERAL_POLICY, tiles)
        f == Count(FASCIST_POLICY, tiles)
    IN  IF l <= NumLiberalTiles /\ f <= NumFascistTiles
        THEN ShuffledTiles[l][f]
        ELSE shuffle(tiles)

\* the shuffled discards put on top of the unused tiles
PutOnTop(unused, shuffled) == shuffled \o unused

\* self.unused_tiles += self.discarded_tiles, after the shuffle of the latter
PutUnder(unused, shuffled) == unused \o shuffled

draw_three_tiles ==
    LET reshuffle == Len(unused_tiles) < 3 IN
    \E shuffled \in (IF reshuffle THEN shuffle_tiles(discarded_tiles) ELSE {discarded_tiles}) :
       LET pile == IF reshuffle THEN PutUnder(unused_tiles, shuffled) ELSE unused_tiles IN
       /\ discarded_tiles' = IF reshuffle THEN <<>> ELSE discarded_tiles
       /\ drawn_tiles' = Take(pile, 3)
       /\ unused_tiles' = Drop(pile, 3)
       /\ updates' = updates
                       \cup (IF reshuffle THEN {"unused_tiles", "discarded_tiles"} ELSE {})
                       \cup {"drawn_tiles", "unused_tiles"}
       /\ drawn_replaced' = (drawn_replaced \/ drawn_tiles # <<>>)
       /\ last_call' = Call("draw_three_tiles", None, None)
       /\ UNCHANGED <<latest_policy, liberal_progress, fascist_progress, response>>
       /\ UNCHANGED rosterVars

\* the test made one tile too early
TwoTilesLeft(rest) == Len(rest) = 2

\* len(self.drawn_tiles) == 1, tested after the removal
OneTileLeft(rest) == Len(rest) = 1

discard_tile(tile) ==
    IF tile \notin Range(drawn_tiles)
    THEN /\ last_call' = Call("discard_tile", tile, "NonexistentTileError")
         /\ UNCHANGED <<updates, deckVars, rosterVars, response>>
    ELSE LET rest == ListRemove(drawn_tiles, tile) IN
         /\ discarded_tiles' = Append(discarded_tiles, tile)
         /\ updates' = updates \cup {"drawn_tiles", "discarded_tiles"}
         /\ IF OneTileLeft(rest)
            THEN \* enact policy; the enacted tile goes into no tile list
                 /\ latest_policy' = rest[1]
                 /\ liberal_progress' =
                       IF rest[1] = LIBERAL_POLICY THEN liberal_progress + 1 ELSE liberal_progress
                 /\ fascist_progress' =
                       IF rest[1] = FASCIST_POLICY THEN fascist_progress + 1 ELSE fascist_progress
                 /\ drawn_tiles' = <<>>
            ELSE /\ drawn_tiles' = rest
                 /\ UNCHANGED <<latest_policy, liberal_progress, fascist_progress>>
         /\ last_call' = Call("discard_tile", tile, None)
         /\ UNCHANGED <<unused_tiles, drawn_replaced, response>>
         /\ UNCHANGED rosterVars

\* a winner check that never reports a winner
NoWinner(lib, fas) == None

Winner(lib, fas) ==
    IF lib = LIBERAL_WINNING_PROGRESS THEN LIBERAL_POLICY
    ELSE IF fas = FASCIST_WINNING_PROGRESS THEN FASCIST_POLICY
    ELSE None

\* a winner check that misses the Fascist track
LiberalWinOnly ==
    IF liberal_progress = LIBERAL_WINNING_PROGRESS THEN LIBERAL_POLICY ELSE None

get_winner == Winner(liberal_progress, fascist_progress)

DeckNext ==
    \/ draw_three_tiles
    \/ \E tile \in Tile : discard_tile(tile)

DeckSpec == Init /\ [][DeckNext]_vars

(***************************************************************************)
(* The roster and the presidency: add_player, begin_game, get_president,   *)
(* advance_president.                                                      *)
(***************************************************************************)
add_player(name) ==
    /\ updates' = updates \cup {"players"}
    /\ IF \E i \in 1..Len(players) : players[i].name = name
       THEN /\ roster_calls < MaxRosterCalls
            /\ last_call' = Call("add_player", name, "DuplicatePlayerNameError")
            /\ roster_calls' = roster_calls + 1
            /\ UNCHANGED players
       ELSE /\ Len(players) < MaxPlayers
            /\ players' = Append(players, Player(Len(players), name))
            /\ last_call' = Call("add_player", name, None)
            /\ UNCHANGED roster_calls
    /\ UNCHANGED <<eliminated_players, president_id, prev_president, fascist_powers, response>>
    /\ UNCHANGED deckVars

\* the identities list built with a liberal in the place of Hitler
ShuffledIdentitiesNoHitler ==
    [n \in DOMAIN NUM_PLAYERS_TO_BOARD_CONFIG |->
       LET board_config == NUM_PLAYERS_TO_BOARD_CONFIG[n]
       IN  shuffle(Repeat(LIBERAL, board_config[1] + 1)
                   \o Repeat(FASCIST, board_config[2]))]

\* identities after random.shuffle(identities), for a roster of n players
ShuffledIdentities ==
    [n \in DOMAIN NUM_PLAYERS_TO_BOARD_CONFIG |->
       LET board_config == NUM_PLAYERS_TO_BOARD_CONFIG[n]
       IN  shuffle(Repeat(LIBERAL, board_config[1])
                   \o Repeat(FASCIST, board_config[2])
                   \o <<HITLER>>)]

begin_game ==
    /\ roster_calls < MaxRosterCalls
    /\ updates' = updates \cup {"players", "fascist_powers"}
    /\ IF Len(players) \notin DOMAIN NUM_PLAYERS_TO_BOARD_CONFIG
       THEN /\ last_call' = Call("begin_game", None, "InvalidNumPlayersError")
            /\ UNCHANGED <<players, fascist_powers>>
       ELSE LET board_config == NUM_PLAYERS_TO_BOARD_CONFIG[Len(players)] IN
            /\ \E identities \in ShuffledIdentities[Len(players)] :
                  players' = [i \in 1..Len(players) |->
                                [players[i] EXCEPT !.identity = identities[i]]]
            /\ fascist_powers' = board_config[3]
            /\ last_call' = Call("begin_game", None, None)
    /\ roster_calls' = roster_calls + 1
    /\ UNCHANGED <<eliminated_players, president_id, prev_president, response>>
    /\ UNCHANGED deckVars

\* self.players[self.president_id] of a president_id that is never negative;
\* defined when HasPresident
HasPresident == president_id < Len(players)

get_president == players[president_id + 1]

\* The right-hand side of the last statement reads the name president_id,
\* which is bound neither in the method nor in the module: the call raises
\* NameError after prev_president has been assigned, and president_id keeps
\* its value.
advance_president ==
    /\ roster_calls < MaxRosterCalls
    /\ updates' = updates \cup {"president_id"}
    /\ IF ~HasPresident
       THEN /\ last_call' = Call("advance_president", None, "IndexError")
            /\ UNCHANGED prev_president
       ELSE /\ prev_president' = get_president.id
            /\ last_call' = Call("advance_president", None, "NameError")
    /\ roster_calls' = roster_calls + 1
    /\ UNCHANGED <<players, eliminated_players, president_id, fascist_powers, response>>
    /\ UNCHANGED deckVars

\* The names tried by add_player: the names of the first and of the last
\* player on the roster, and one name that is not on it (names are the
\* numbers 1, 2, ... in the order of their first use).
NameChoices == {1, Len(players), Len(players) + 1} \ {0}

RosterNext ==
    \/ \E name \in NameChoices : add_player(name)
    \/ begin_game
    \/ advance_president

\* the roster operations on a Board whose shuffle left the deck in its
\* construction order
RosterInit ==
    /\ Init
    /\ unused_tiles = Repeat(LIBERAL_POLICY, NumLiberalTiles)
                        \o Repeat(FASCIST_POLICY, NumFascistTiles)

RosterSpec == RosterInit /\ [][RosterNext]_vars

(***************************************************************************)
(* Elimination.  board.py keeps eliminated_players next to players ("active *)
(* players only") and has no method that moves a player from one to the     *)
(* other; the move is the one the data model describes: the player leaves   *)
(* the active roster, the players after it shift down, and it joins the     *)
(* eliminated players.                                                     *)
(***************************************************************************)
eliminate_player(i) ==
    /\ Len(eliminated_players) < MaxEliminated
    /\ eliminated_players' = Append(eliminated_players, players[i])
    /\ players' = SubSeq(players, 1, i - 1) \o SubSeq(players, i + 1, Len(players))
    /\ updates' = updates \cup {"players", "eliminated_players"}
    /\ last_call' = Call("eliminate_player", players[i].name, None)
    /\ UNCHANGED <<president_id, prev_president, fascist_powers, roster_calls, response>>
    /\ UNCHANGED deckVars

EliminationNext ==
    \/ \E name \in NameChoices : add_player(name)
    \/ \E i \in 1..Len(players) : eliminate_player(i)

\* players join, are eliminated and join again before the game begins
EliminationSpec == RosterInit /\ [][EliminationNext]_vars

(***************************************************************************)
(* get_current_presidential_power reads the Board and changes nothing.  The *)
(* subscript fascist_powers[fascist_progress - 1] raises TypeError while    *)
(* fascist_powers is None and IndexError past the end of the list.          *)
(***************************************************************************)
get_current_presidential_power ==
    IF latest_policy # FASCIST_POLICY THEN None
    ELSE IF fascist_progress = 0 THEN None
    ELSE IF fascist_powers = None THEN "TypeError"
    ELSE IF fascist_progress > Len(fascist_powers) THEN "IndexError"
    ELSE fascist_powers[fascist_progress]

(***************************************************************************)
(* The update tracker: private_state_translations, extract_updates,        *)
(* get_full_state.                                                         *)
(***************************************************************************)
\* the keys of the class attribute private_state_translations
private_state_translations ==
    {"players", "eliminated_players", "president", "chancellor",
     "nominated_chancellor", "unused_tiles", "discarded_tiles", "drawn_tiles",
     "liberal_progress", "fascist_progress"}

\* Tile.__str__
TileStr(tile) == IF tile = LIBERAL_POLICY THEN "Liberal" ELSE "Fascist"

\* The value the table gives for a key: the entry's lambda applied to the
\* field, or the field itself where the entry is None.  chancellor and
\* nominated_chancellor are never assigned after construction.
Translation(prop) ==
    CASE prop = "players" -> [i \in 1..Len(players) |-> players[i].name]
      [] prop = "eliminated_players" ->
            [i \in 1..Len(eliminated_players) |-> eliminated_players[i].name]
      [] prop = "president" -> IF HasPresident THEN get_president ELSE None
      [] prop = "unused_tiles" -> Len(unused_tiles)
      [] prop = "discarded_tiles" -> Len(discarded_tiles)
      [] prop = "drawn_tiles" -> [i \in 1..Len(drawn_tiles) |-> TileStr(drawn_tiles[i])]
      [] prop = "liberal_progress" -> liberal_progress
      [] prop = "fascist_progress" -> fascist_progress
      [] OTHER -> None

\* custom_updates = {} stands for both None and an empty collection: "or"
\* replaces either by self.updates.  The loop body reads the bare name
\* private_state_translations, which is bound in the class body only, so the
\* first iteration raises NameError and the Board is left as it was; with
\* nothing to iterate over the call returns an empty dict and binds updates to
\* a new empty set.
extract_updates(custom_updates) ==
    LET new_updates == IF custom_updates = {} THEN updates ELSE custom_updates IN
    IF new_updates # {}
    THEN /\ last_call' = Call("extract_updates", custom_updates, "NameError")
         /\ UNCHANGED <<updates, response, deckVars, rosterVars>>
    ELSE /\ response' = <<>>
         /\ updates' = {}
         /\ last_call' = Call("extract_updates", custom_updates, None)
         /\ UNCHANGED <<deckVars, rosterVars>>

\* The argument private_state_translations.keys() is evaluated before the
\* call and raises NameError.
get_full_state ==
    /\ last_call' = Call("get_full_state", None, "NameError")
    /\ UNCHANGED <<updates, response, deckVars, rosterVars>>

CustomUpdates == {{}, {"players"}, {"drawn_tiles", "liberal_progress"}}

SyncNext ==
    \/ \E name \in NameChoices : add_player(name)
    \/ begin_game
    \/ advance_president
    \/ \E custom_updates \in CustomUpdates : extract_updates(custom_updates)
    \/ get_full_state

\* the roster operations interleaved with the two state reports
SyncSpec == RosterInit /\ [][SyncNext]_vars

(***************************************************************************)
(* Legislative sessions as a caller runs them: while get_winner reports no *)
(* winner, draw three tiles with drawn_tiles empty, then discard two of    *)
(* the drawn tiles; the second discard enacts the third tile.              *)
(***************************************************************************)
SessionDraw ==
    /\ drawn_tiles = <<>>
    /\ get_winner = None
    /\ draw_three_tiles

SessionDiscard ==
    /\ drawn_tiles # <<>>
    /\ \E tile \in Range(drawn_tiles) : discard_tile(tile)

ProtocolNext ==
    \/ SessionDraw
    \/ SessionDiscard

ProtocolSpec == Init /\ [][ProtocolNext]_vars

\* a caller that keeps running sessions: a draw that stays possible is made,
\* and so is a discard
FairProtocolSpec ==
    ProtocolSpec /\ WF_vars(SessionDraw) /\ WF_vars(SessionDiscard)

\* The whole Board.  The deck methods and the roster methods read and write
\* disjoint fields (updates apart, which both only extend), so the deck is
\* checked under DeckSpec, over every shuffle of the 17 tiles, the roster
\* under RosterSpec and the two state reports, next to the roster methods,
\* under SyncSpec.
Next ==
    \/ DeckNext
    \/ RosterNext
    \/ \E custom_updates \in CustomUpdates : extract_updates(custom_updates)
    \/ get_full_state

Spec == Init /\ [][Next]_vars

(***************************************************************************)
(* Properties of the deck, checked under DeckSpec.                         *)
(***************************************************************************)
Returned(op) == last_call.op = op /\ last_call.raised = None

\* the step is a call of op that returned
Returns(op) == last_call'.op = op /\ last_call'.raised = None

TileCount == Len(unused_tiles) + Len(discarded_tiles) + Len(drawn_tiles)
               + liberal_progress + fascist_progress

\* C1 (as claimed): in every state reachable by any sequence of
\* draw_three_tiles and discard_tile calls, the three pools and the enacted
\* tiles (liberal_progress + fascist_progress) add up to 17 tiles.
C1_TileConservation == TileCount = 17

\* C1 (amended): the pools and the enacted tiles add up to 17 tiles in every
\* state reached by a sequence of calls in which draw_three_tiles was only
\* called while drawn_tiles was empty.
C1_TileConservationEmptyDraws == ~drawn_replaced => TileCount = 17

\* six policies enacted, which takes a reshuffle, and a seventh draw made
C1_Witness ==
    /\ ~drawn_replaced
    /\ liberal_progress + fascist_progress = 6
    /\ Len(drawn_tiles) = 3

\* C2: a discard_tile call that leaves exactly one tile in drawn_tiles enacts
\* that tile: latest_policy becomes its kind, the counter of that kind grows
\* by one and the other keeps its value, the tile enters neither
\* discarded_tiles nor unused_tiles, and drawn_tiles ends empty; a call that
\* leaves two or more tiles changes neither counter nor latest_policy.
C2_EnactmentTrigger ==
    [][Returns("discard_tile") =>
         LET tile == last_call'.arg IN
         /\ Len(drawn_tiles) = 2 =>
               \E i \in 1..2 :
                  /\ drawn_tiles[i] = tile
                  /\ LET kind == drawn_tiles[3 - i] IN
                     /\ latest_policy' = kind
                     /\ liberal_progress' =
                           liberal_progress + (IF kind = LIBERAL_POLICY THEN 1 ELSE 0)
                     /\ fascist_progress' =
                           fascist_progress + (IF kind = FASCIST_POLICY THEN 1 ELSE 0)
                  /\ drawn_tiles' = <<>>
                  /\ discarded_tiles' = Append(discarded_tiles, tile)
                  /\ unused_tiles' = unused_tiles
         /\ Len(drawn_tiles) >= 3 =>
               UNCHANGED <<liberal_progress, fascist_progress, latest_policy>>]_vars

\* the first session has ended: its second discard enacted a liberal policy
C2_Witness ==
    /\ Returned("discard_tile")
    /\ drawn_tiles = <<>>
    /\ Len(discarded_tiles) = 2
    /\ Len(unused_tiles) = 14
    /\ latest_policy = LIBERAL_POLICY
    /\ liberal_progress = 1
    /\ fascist_progress = 0

\* the part of C3 about a draw from three or more unused tiles: the first
\* three, in order, become drawn_tiles, the others keep their order, and
\* discarded_tiles and the counters keep their values
DrawFromFront ==
    [][(Returns("draw_three_tiles") /\ Len(unused_tiles) >= 3) =>
         /\ drawn_tiles' = SubSeq(unused_tiles, 1, 3)
         /\ unused_tiles' = SubSeq(unused_tiles, 4, Len(unused_tiles))
         /\ UNCHANGED <<discarded_tiles, liberal_progress, fascist_progress>>]_vars

\* C3: draw_three_tiles called with three or more unused tiles moves the
\* first three, in order, into drawn_tiles (whatever it held), leaves the
\* other unused tiles in order and discarded_tiles and the counters alone;
\* and after every draw that returns, drawn_tiles holds three tiles.
C3_DrawThree ==
    [][Returns("draw_three_tiles") =>
         /\ Len(unused_tiles) >= 3 =>
               /\ drawn_tiles' = SubSeq(unused_tiles, 1, 3)
               /\ unused_tiles' = SubSeq(unused_tiles, 4, Len(unused_tiles))
               /\ UNCHANGED <<discarded_tiles, liberal_progress, fascist_progress>>
         /\ Len(drawn_tiles') = 3]_vars

\* C4: draw_three_tiles called with fewer than three unused tiles puts all
\* the discarded tiles, in some order, after the unused ones, empties
\* discarded_tiles and then draws: unused_tiles' and drawn_tiles' together
\* hold the tiles of unused_tiles and discarded_tiles, no more and no fewer,
\* and the tiles that were unused are the first ones drawn.
C4_Reshuffle ==
    [][(last_call'.op = "draw_three_tiles" /\ Len(unused_tiles) < 3) =>
         LET pile == drawn_tiles' \o unused_tiles'
             under == SubSeq(pile, Len(unused_tiles) + 1, Len(pile))
         IN  /\ last_call'.raised = None
             /\ discarded_tiles' = <<>>
             /\ Len(pile) = Len(unused_tiles) + Len(discarded_tiles)
             /\ SubSeq(pile, 1, Len(unused_tiles)) = unused_tiles
             /\ \A kind \in Tile :
                   /\ Count(kind, under) = Count(kind, discarded_tiles)
                   /\ Count(kind, unused_tiles') + Count(kind, drawn_tiles')
                        = Count(kind, unused_tiles) + Count(kind, discarded_tiles)
             /\ Len(drawn_tiles') = (IF Len(pile) < 3 THEN Len(pile) ELSE 3)]_vars

\* the sixth draw of a run of whole sessions: two tiles were unused and ten
\* discarded, now three are drawn and nine unused
C4_Witness ==
    /\ Returned("draw_three_tiles")
    /\ ~drawn_replaced
    /\ liberal_progress + fascist_progress = 5
    /\ discarded_tiles = <<>>
    /\ Len(drawn_tiles) = 3
    /\ Len(unused_tiles) = 9

\* C5: draw_three_tiles fails with an InsufficientTiles error when, and only
\* when, unused_tiles and discarded_tiles together hold fewer than three
\* tiles; it never returns with fewer than three tiles in drawn_tiles.
C5_InsufficientTiles ==
    [][last_call'.op = "draw_three_tiles" =>
         /\ last_call'.raised = "InsufficientTiles"
               <=> Len(unused_tiles) + Len(discarded_tiles) < 3
         /\ last_call'.raised = None => Len(drawn_tiles') = 3]_vars

\* C6 (as claimed): discard_tile(tile) fails with NonexistentTileError
\* exactly when no tile of that kind is in drawn_tiles; otherwise drawn_tiles
\* loses exactly one tile of that kind, discarded_tiles gains exactly one,
\* and unused_tiles keeps its value.
C6_DiscardExactlyOne ==
    [][last_call'.op = "discard_tile" =>
         LET tile == last_call'.arg IN
         /\ last_call'.raised = "NonexistentTileError" <=> tile \notin Range(drawn_tiles)
         /\ last_call'.raised = None =>
               /\ Count(tile, drawn_tiles') = Count(tile, drawn_tiles) - 1
               /\ Count(tile, discarded_tiles') = Count(tile, discarded_tiles) + 1
               /\ Len(discarded_tiles') = Len(discarded_tiles) + 1
               /\ unused_tiles' = unused_tiles]_vars

\* C6 (amended): discard_tile(tile) fails with NonexistentTileError exactly
\* when no tile of that kind is in drawn_tiles; otherwise it appends the
\* tile to discarded_tiles, leaves unused_tiles alone and takes exactly one
\* tile of that kind out of drawn_tiles, unless that leaves a single tile:
\* then the single tile is enacted and drawn_tiles ends empty.
C6_DiscardOneOrEnact ==
    [][last_call'.op = "discard_tile" =>
         LET tile == last_call'.arg IN
         /\ last_call'.raised \in {None, "NonexistentTileError"}
         /\ last_call'.raised = "NonexistentTileError" <=> tile \notin Range(drawn_tiles)
         /\ last_call'.raised = None =>
               /\ discarded_tiles' = Append(discarded_tiles, tile)
               /\ unused_tiles' = unused_tiles
               /\ IF Len(drawn_tiles) = 2
                  THEN drawn_tiles' = <<>>
                  ELSE /\ Len(drawn_tiles') = Len(drawn_tiles) - 1
                       /\ Count(tile, drawn_tiles') = Count(tile, drawn_tiles) - 1
                       /\ \A kind \in Tile \ {tile} :
                             Count(kind, drawn_tiles') = Count(kind, drawn_tiles)]_vars

\* a fascist tile discarded from three drawn tiles, two of them left
C6_Witness ==
    /\ Returned("discard_tile")
    /\ last_call.arg = FASCIST_POLICY
    /\ Len(drawn_tiles) = 2
    /\ Len(discarded_tiles) >= 1

\* C7: in every reachable state get_winner returns Liberal if and only if
\* liberal_progress = 5, Fascist if and only if fascist_progress = 6, and
\* none otherwise.
C7_WinThresholds ==
    /\ get_winner = LIBERAL_POLICY <=> liberal_progress = 5
    /\ get_winner = FASCIST_POLICY <=> fascist_progress = 6
    /\ get_winner = None <=> (liberal_progress # 5 /\ fascist_progress # 6)

\* C8: once get_winner reports a winner, no draw_three_tiles or discard_tile
\* call changes the pools, latest_policy or the counters, so the winner
\* stays the winner, liberal_progress never exceeds 5 and fascist_progress
\* never exceeds 6.
C8_TerminalState ==
    [][/\ get_winner # None =>
             /\ UNCHANGED <<unused_tiles, discarded_tiles, drawn_tiles, latest_policy,
                            liberal_progress, fascist_progress>>
             /\ get_winner' = get_winner
       /\ liberal_progress' <= 5
       /\ fascist_progress' <= 6]_vars

(***************************************************************************)
(* Properties of the roster and the presidency, checked under RosterSpec.  *)
(***************************************************************************)
\* C9: advance_president, called with a non-empty roster, sets
\* prev_president to the player who was president before the call and
\* president_id to (president_id + 1) modulo the number of active players,
\* so that president_id stays an index into players.
C9_AdvancePresident ==
    [][(last_call'.op = "advance_president" /\ Len(players) > 0) =>
         /\ prev_president' = players[president_id + 1].id
         /\ president_id' = (president_id + 1) % Len(players)
         /\ president_id' < Len(players')]_vars

\* the numbers of liberals, of fascists and of Hitlers for each roster size
RoleCounts ==
    [n \in 5..10 |->
       CASE n = 5  -> <<3, 1, 1>>
         [] n = 6  -> <<4, 1, 1>>
         [] n = 7  -> <<4, 2, 1>>
         [] n = 8  -> <<5, 2, 1>>
         [] n = 9  -> <<5, 3, 1>>
         [] n = 10 -> <<6, 3, 1>>]

WithRole(role, roster) == Len(SelectSeq(roster, LAMBDA p : p.identity = role))

\* C10: begin_game fails with InvalidNumPlayersError exactly when the number
\* N of players is outside 5..10; when it returns, the same players are on
\* the roster, each has one role, the numbers of liberals, fascists and
\* Hitlers are those of RoleCounts[N] whatever the shuffle picked, and
\* fascist_powers is the six-slot power list of N.
C10_BeginGame ==
    [][last_call'.op = "begin_game" =>
         LET N == Len(players) IN
         /\ last_call'.raised \in {None, "InvalidNumPlayersError"}
         /\ last_call'.raised = "InvalidNumPlayersError" <=> N \notin 5..10
         /\ last_call'.raised = None =>
               /\ Len(players') = N
               /\ \A i \in 1..N :
                     /\ players'[i].id = players[i].id
                     /\ players'[i].name = players[i].name
                     /\ players'[i].identity \in Identity
               /\ WithRole(LIBERAL, players') = RoleCounts[N][1]
               /\ WithRole(FASCIST, players') = RoleCounts[N][2]
               /\ WithRole(HITLER, players') = RoleCounts[N][3]
               /\ fascist_powers' = NUM_PLAYERS_TO_BOARD_CONFIG[N][3]
               /\ Len(fascist_powers') = 6]_vars

\* begin_game has returned on a roster of ten players and the shuffle made
\* the last player Hitler
C10_Witness ==
    /\ Returned("begin_game")
    /\ Len(players) = 10
    /\ players[10].identity = HITLER
    /\ WithRole(LIBERAL, players) = 6

\* C11: roles and the power list are assigned once: a begin_game call on a
\* Board whose game has begun (fascist_powers is bound) is rejected, and
\* from then on no player's role and no entry of fascist_powers changes.
C11_BeginGameOnce ==
    [][fascist_powers # None =>
         /\ ~Returns("begin_game")
         /\ fascist_powers' = fascist_powers
         /\ \A i \in 1..Len(players) : players'[i].identity = players[i].identity]_vars

(***************************************************************************)
(* Properties of elimination, the power lookup and the update tracker.     *)
(***************************************************************************)
Names(roster) == {roster[i].name : i \in 1..Len(roster)}

UniqueNames(roster) ==
    \A i, j \in 1..Len(roster) : i # j => roster[i].name # roster[j].name

\* C12: add_player(name) fails with DuplicatePlayerNameError when the name
\* belongs to an active or to an eliminated player, and otherwise appends a
\* player whose id is the number of active players before the call; hence no
\* two players among players and eliminated_players share a name.
C12_UniquePlayerNames ==
    [][/\ last_call'.op = "add_player" =>
             IF last_call'.arg \in Names(players) \cup Names(eliminated_players)
             THEN /\ last_call'.raised = "DuplicatePlayerNameError"
                  /\ players' = players
             ELSE /\ last_call'.raised = None
                  /\ Len(players') = Len(players) + 1
                  /\ players'[Len(players')].id = Len(players)
                  /\ players'[Len(players')].name = last_call'.arg
       /\ UniqueNames(players' \o eliminated_players')]_vars

\* C13: get_current_presidential_power returns none when latest_policy is not
\* Fascist or fascist_progress is 0, and otherwise the entry of fascist_powers
\* at position fascist_progress (index fascist_progress - 1 from 0); in every
\* reachable state with latest_policy Fascist and fascist_progress > 0 that
\* entry exists, so the lookup raises nothing.
C13_PresidentialPowerDefined ==
    IF latest_policy # FASCIST_POLICY \/ fascist_progress = 0
    THEN get_current_presidential_power = None
    ELSE /\ get_current_presidential_power \notin {"TypeError", "IndexError"}
         /\ fascist_powers # None
         /\ fascist_progress <= FASCIST_WINNING_PROGRESS

\* C14: dirty tracking is complete: after a call of a mutating operation that
\* returns, the name of every Board field whose value the call changed is in
\* the pending updates set.
C14_DirtyTrackingComplete ==
    [][last_call'.raised = None =>
         /\ players' # players => "players" \in updates'
         /\ eliminated_players' # eliminated_players => "eliminated_players" \in updates'
         /\ fascist_powers' # fascist_powers => "fascist_powers" \in updates'
         /\ unused_tiles' # unused_tiles => "unused_tiles" \in updates'
         /\ discarded_tiles' # discarded_tiles => "discarded_tiles" \in updates'
         /\ drawn_tiles' # drawn_tiles => "drawn_tiles" \in updates'
         /\ latest_policy' # latest_policy => "latest_policy" \in updates'
         /\ liberal_progress' # liberal_progress => "liberal_progress" \in updates'
         /\ fascist_progress' # fascist_progress => "fascist_progress" \in updates']_vars

\* C15: every pending name is a key of private_state_translations, so
\* extract_updates without an explicit field set always returns: its result
\* has the pending names as its keys and the pending set is empty afterwards.
C15_ExtractUpdatesSucceeds ==
    [][/\ updates' \subseteq private_state_translations
       /\ (last_call'.op = "extract_updates" /\ last_call'.arg = {}) =>
             /\ last_call'.raised = None
             /\ DOMAIN response' = updates
             /\ updates' = {}]_vars

\* C16: what get_full_state and extract_updates hand out holds translated
\* values only: get_full_state returns the translation of every key of the
\* table, and every value in a result of extract_updates is the translation
\* of its key (so two Boards with the same translations report the same).
C16_RedactedOutput ==
    [][/\ last_call'.op = "get_full_state" =>
             /\ last_call'.raised = None
             /\ response' = [prop \in private_state_translations |-> Translation(prop)]
       /\ Returns("extract_updates") =>
             \A prop \in DOMAIN response' : response'[prop] = Translation(prop)]_vars

BoardFields ==
    <<players, eliminated_players, president_id, prev_president, fascist_powers,
      unused_tiles, discarded_tiles, drawn_tiles, latest_policy,
      liberal_progress, fascist_progress, updates>>

\* C17: failure atomicity: when add_player, begin_game, advance_president,
\* draw_three_tiles or discard_tile raises, every field of the Board,
\* the pending updates set included, is as it was before the call.
C17_FailureAtomicity ==
    [][(/\ last_call'.op \in {"add_player", "begin_game", "advance_president",
                              "draw_three_tiles", "discard_tile"}
        /\ last_call'.raised # None)
       => UNCHANGED BoardFields]_vars

(***************************************************************************)
(* Properties of the tile kinds and of whole games.                        *)
(***************************************************************************)
\* C18: as long as draw_three_tiles has only been called with drawn_tiles
\* empty, each kind of tile is conserved on its own: the Liberal tiles in the
\* three pools plus liberal_progress are 6, the Fascist tiles in the three
\* pools plus fascist_progress are 11.
C18_KindConservation ==
    ~drawn_replaced =>
        /\ Count(LIBERAL_POLICY, unused_tiles) + Count(LIBERAL_POLICY, discarded_tiles)
             + Count(LIBERAL_POLICY, drawn_tiles) + liberal_progress = NumLiberalTiles
        /\ Count(FASCIST_POLICY, unused_tiles) + Count(FASCIST_POLICY, discarded_tiles)
             + Count(FASCIST_POLICY, drawn_tiles) + fascist_progress = NumFascistTiles

\* seven policies enacted, of both kinds, the seventh after the discarded
\* tiles went back under the pile; the first tile of the eighth session is
\* discarded
C18_Witness ==
    /\ ~drawn_replaced
    /\ Returned("discard_tile")
    /\ liberal_progress >= 2
    /\ fascist_progress >= 2
    /\ liberal_progress + fascist_progress = 7
    /\ Len(drawn_tiles) = 2
    /\ Len(discarded_tiles) = 5

\* C19: when draw_three_tiles is only called with drawn_tiles empty and no
\* winner, and every draw is followed by two discards, then at every draw
\* unused_tiles and discarded_tiles together hold at least 3 tiles, and the
\* draw yields exactly 3 tiles.
C19_SupplyFloor ==
    [][Returns("draw_three_tiles") =>
          /\ Len(unused_tiles) + Len(discarded_tiles) >= 3
          /\ Len(drawn_tiles') = 3]_vars

\* the last draw a game can have: nine policies enacted (four Liberal, five
\* Fascist), eight tiles were left, three of them are drawn now
C19_Witness ==
    /\ Returned("draw_three_tiles")
    /\ liberal_progress = 4
    /\ fascist_progress = 5
    /\ Len(drawn_tiles) = 3
    /\ Len(unused_tiles) + Len(discarded_tiles) = 5

\* C20: when sessions are run for as long as there is no winner, get_winner
\* eventually reports a winner, and it does so after at most 10 enactments.
C20_GameTerminates ==
    /\ <>(get_winner # None)
    /\ [](liberal_progress + fascist_progress <= 10)

\* the longest game: four Liberal and five Fascist policies, then a tenth
\* enactment that decides it
C20_Witness ==
    /\ get_winner # None
    /\ liberal_progress + fascist_progress = 10
    /\ drawn_tiles = <<>>

====
